---------------------------- MODULE Spec2Model ----------------------------
(***************************************************************************)
(* Appointment-booking HTTP API (af-automations-backend).                  *)
(*                                                                         *)
(* Strings are modelled as sequences of one-character strings so that the  *)
(* code's splitting, slicing, trimming, formatting and comparisons are     *)
(* computed the way the Go code computes them.  Fixed messages that the    *)
(* code only passes along (error texts) are kept as TLA+ strings.          *)
(***************************************************************************)
EXTENDS Integers, Sequences, FiniteSets, TLC

(***************************************************************************)
(* Bounds of the model.                                                    *)
(***************************************************************************)
MaxRows == 2        \* rows the appointments table may hold
MaxContacts == 2    \* rows the contacts table may hold

Procs == {1, 2}     \* request-handling goroutines of net/http

(***************************************************************************)
(* net/http status codes used by the handlers.                             *)
(***************************************************************************)
StatusOK == 200
StatusBadRequest == 400
StatusMethodNotAllowed == 405
StatusInternalServerError == 500

(***************************************************************************)
(* String helpers (Go: strings, fmt, regexp, byte-wise comparison).        *)
(***************************************************************************)
Digits == <<"0", "1", "2", "3", "4", "5", "6", "7", "8", "9">>

IsDigit(c) == \E i \in 1..10 : Digits[i] = c

DigitVal(c) == (CHOOSE i \in 1..10 : Digits[i] = c) - 1

\* Byte order of the characters the slot strings are made of: '0'..'9' < ':'.
Ord(c) == IF IsDigit(c) THEN 48 + DigitVal(c) ELSE 58

\* Go's string comparison a < b: byte-wise lexicographic.
RECURSIVE StrLess(_, _)
StrLess(a, b) ==
    IF b = <<>> THEN FALSE
    ELSE IF a = <<>> THEN TRUE
    ELSE IF Ord(Head(a)) # Ord(Head(b)) THEN Ord(Head(a)) < Ord(Head(b))
    ELSE StrLess(Tail(a), Tail(b))

StrGeq(a, b) == ~StrLess(a, b)

\* fmt.Sprintf("%02d", n) for 0 <= n < 100.
Fmt02d(n) == <<Digits[(n \div 10) + 1], Digits[(n % 10) + 1]>>

\* fmt.Sprintf("%02d:%02d", hour, minute)
SprintfHM(hour, minute) == Fmt02d(hour) \o <<":">> \o Fmt02d(minute)

\* unicode.IsSpace / regexp \s on the characters in use.
IsSpace(c) == c \in {" ", "\t", "\n", "\r"}

RECURSIVE TrimLeft(_)
TrimLeft(s) == IF s # <<>> /\ IsSpace(Head(s)) THEN TrimLeft(Tail(s)) ELSE s

RECURSIVE TrimRight(_)
TrimRight(s) ==
    IF s # <<>> /\ IsSpace(s[Len(s)]) THEN TrimRight(SubSeq(s, 1, Len(s) - 1)) ELSE s

\* strings.TrimSpace
TrimSpace(s) == TrimRight(TrimLeft(s))

UpperCase == <<"A", "B", "C", "D", "E", "F", "G", "H", "I", "J", "K", "L", "M",
               "N", "O", "P", "Q", "R", "S", "T", "U", "V", "W", "X", "Y", "Z">>
LowerCase == <<"a", "b", "c", "d", "e", "f", "g", "h", "i", "j", "k", "l", "m",
               "n", "o", "p", "q", "r", "s", "t", "u", "v", "w", "x", "y", "z">>

ToLowerChar(c) ==
    IF \E i \in 1..26 : UpperCase[i] = c
    THEN LowerCase[CHOOSE i \in 1..26 : UpperCase[i] = c]
    ELSE c

\* strings.ToLower
ToLower(s) == [i \in 1..Len(s) |-> ToLowerChar(s[i])]

\* strings.Split(s, sep) for a one-character separator: always at least one
\* fragment, strings.Split("", "T") = [""].
RECURSIVE SplitFrom(_, _, _)
SplitFrom(s, sep, cur) ==
    IF s = <<>> THEN <<cur>>
    ELSE IF Head(s) = sep THEN <<cur>> \o SplitFrom(Tail(s), sep, <<>>)
    ELSE SplitFrom(Tail(s), sep, Append(cur, Head(s)))

Split(s, sep) == SplitFrom(s, sep, <<>>)

\* One character of the class [^\s@].
PlainChar(c) == ~IsSpace(c) /\ c # "@"

AllPlain(s, from, to) == from <= to /\ \A k \in from..to : PlainChar(s[k])

\* regexp ^[^\s@]+@[^\s@]+\.[^\s@]+$
EmailRegexMatch(s) ==
    \E i \in 1..Len(s) : \E j \in 1..Len(s) :
        /\ i < j
        /\ s[i] = "@"
        /\ s[j] = "."
        /\ AllPlain(s, 1, i - 1)
        /\ AllPlain(s, i + 1, j - 1)
        /\ AllPlain(s, j + 1, Len(s))

(***************************************************************************)
(* time.Parse("2006-01-02", s) and Time.Weekday().                         *)
(***************************************************************************)
Num2(s, i) == DigitVal(s[i]) * 10 + DigitVal(s[i + 1])

IsLeap(y) == (y % 4 = 0 /\ y % 100 # 0) \/ y % 400 = 0

DaysIn(y, m) ==
    IF m = 2 THEN (IF IsLeap(y) THEN 29 ELSE 28)
    ELSE IF m \in {4, 6, 9, 11} THEN 30 ELSE 31

\* The layout takes a four-digit year, '-', a two-digit month, '-', a
\* two-digit day and nothing else; month and day must be in range.
DateShapeOK(s) ==
    /\ Len(s) = 10
    /\ s[5] = "-" /\ s[8] = "-"
    /\ \A i \in {1, 2, 3, 4, 6, 7, 9, 10} : IsDigit(s[i])

DateYear(s) == Num2(s, 1) * 100 + Num2(s, 3)
DateMonth(s) == Num2(s, 6)
DateDay(s) == Num2(s, 9)

\* err == nil of time.Parse("2006-01-02", s)
ParseDateOK(s) ==
    /\ DateShapeOK(s)
    /\ DateMonth(s) \in 1..12
    /\ DateDay(s) \in 1..DaysIn(DateYear(s), DateMonth(s))

\* Days since 0001-01-01 (a Monday) of a civil date.
DaysBeforeYear(y) == 365 * (y - 1) + ((y - 1) \div 4) - ((y - 1) \div 100) + ((y - 1) \div 400)

RECURSIVE DaysBeforeMonth(_, _)
DaysBeforeMonth(y, m) == IF m = 1 THEN 0 ELSE DaysBeforeMonth(y, m - 1) + DaysIn(y, m - 1)

\* int(parsedDate.Weekday()): Sunday = 0 ... Saturday = 6.
Weekday(s) ==
    (DaysBeforeYear(DateYear(s)) + DaysBeforeMonth(DateYear(s), DateMonth(s)) + DateDay(s)) % 7

(***************************************************************************)
(* Schedule constants and the slot generator.                              *)
(***************************************************************************)
\* The bookable days numbered from Monday = 0 instead of Sunday = 0.
AvailableDaysFromMonday == <<1, 3, 4>>

\* Tuesday (2), Thursday (4), Friday (5)
AVAILABLE_DAYS == <<2, 4, 5>>

BLOCKED_TIME == [Start |-> <<"1", "4", ":", "0", "0">>, End |-> <<"1", "4", ":", "3", "0">>]

\* contains(slice, item)
contains(slice, item) == \E i \in 1..Len(slice) : slice[i] = item

\* The inner loop with the blocked window closed at its end (<= for <).
RECURSIVE SlotsOfHourEndIncluded(_, _)
SlotsOfHourEndIncluded(hour, minute) ==
    IF minute < 60
    THEN LET timeString == SprintfHM(hour, minute)
         IN  (IF StrGeq(timeString, BLOCKED_TIME.Start) /\ ~StrLess(BLOCKED_TIME.End, timeString)
              THEN <<>>
              ELSE <<timeString>>) \o SlotsOfHourEndIncluded(hour, minute + 30)
    ELSE <<>>

\* The inner loop of generateTimeSlots: minute := 0; minute < 60; minute += 30.
RECURSIVE SlotsOfHour(_, _)
SlotsOfHour(hour, minute) ==
    IF minute < 60
    THEN LET timeString == SprintfHM(hour, minute)
         IN  (IF StrGeq(timeString, BLOCKED_TIME.Start) /\ StrLess(timeString, BLOCKED_TIME.End)
              THEN <<>>
              ELSE <<timeString>>) \o SlotsOfHour(hour, minute + 30)
    ELSE <<>>

\* The outer loop: hour := 9; hour < 17; hour++.
RECURSIVE SlotsFromHour(_)
SlotsFromHour(hour) ==
    IF hour < 17 THEN SlotsOfHour(hour, 0) \o SlotsFromHour(hour + 1) ELSE <<>>

generateTimeSlots == SlotsFromHour(9)


(***************************************************************************)
(* Values of the request and response structs.                             *)
(***************************************************************************)
EmptyStr == <<>>

\* The zero value of the Appointment struct (Message is the nil pointer).
ZeroAppointment ==
    [id |-> 0, name |-> EmptyStr, email |-> EmptyStr, date |-> EmptyStr,
     time |-> EmptyStr, message |-> "nil"]

\* json.NewEncoder(w).Encode(AppointmentResponse{...}): the members tagged
\* omitempty are left out when false, "" or of length 0; the Appointment
\* struct is always written.  keys is the set of members of the JSON object.
EncodeAppointmentResponse(success, message, error, slots, appointment) ==
    [keys |-> {"appointment"}
                \cup (IF success THEN {"success"} ELSE {})
                \cup (IF message # "" THEN {"message"} ELSE {})
                \cup (IF error # "" THEN {"error"} ELSE {})
                \cup (IF Len(slots) > 0 THEN {"slots"} ELSE {}),
     success |-> success, message |-> message, error |-> error,
     slots |-> slots, appointment |-> appointment]

\* Encode(map[string]interface{}{"success": true, "message": ...})
EncodeContactOK ==
    [keys |-> {"success", "message"},
     success |-> TRUE, message |-> "Contact received and email sent.", error |-> "",
     slots |-> <<>>, appointment |-> ZeroAppointment]

\* A fresh http.ResponseWriter: no header written (status 0), empty body.
NewResponse == [status |-> 0, bodies |-> <<>>, panicked |-> FALSE]

\* w.WriteHeader(status): only the first call sets the status line.
WriteHeader(w, status) == IF w.status = 0 THEN [w EXCEPT !.status = status] ELSE w

\* w.Write(body): writes the header with 200 first when none was written.
WriteBody(w, body) ==
    [WriteHeader(w, StatusOK) EXCEPT !.bodies = Append(w.bodies, body)]

\* handleError(w, message, status)
handleError(w, message, status) ==
    WriteBody(WriteHeader(w, status),
              EncodeAppointmentResponse(FALSE, "", message, <<>>, ZeroAppointment))

(***************************************************************************)
(* Storage: the statements the handlers send.                              *)
(***************************************************************************)
\* SELECT time FROM appointments WHERE date = $1
RECURSIVE SelectTimes(_, _)
SelectTimes(table, date) ==
    IF table = <<>> THEN <<>>
    ELSE (IF Head(table).date = date THEN <<Head(table).time>> ELSE <<>>)
         \o SelectTimes(Tail(table), date)

\* The COUNT statement without its condition on time.
SelectCountOfDate(table, date, time) ==
    Cardinality({i \in 1..Len(table) : table[i].date = date})

\* SELECT COUNT(*) FROM appointments WHERE date = $1 AND time = $2
SelectCount(table, date, time) ==
    Cardinality({i \in 1..Len(table) : table[i].date = date /\ table[i].time = time})

\* The row of INSERT INTO appointments (name, email, date, time, message)
\* VALUES (TrimSpace(name), ToLower(TrimSpace(email)), date, time, message)
\* RETURNING id.
InsertedRow(id, a) ==
    [id |-> id, name |-> TrimSpace(a.name), email |-> ToLower(TrimSpace(a.email)),
     date |-> a.date, time |-> a.time, message |-> a.message]

(***************************************************************************)
(* handleGetAppointments.                                                  *)
(***************************************************************************)
MsgTimeEmpty == "Time of booked appointment was empty"
MsgTimeFormat == "Time string was not in correct format with a T as a separator. Please clean the data!"

\* The stored time compared without cutting the seconds off.
TruncateNothing(t) == t

\* if len(t) > 5 { t = t[:5] }
Truncate5(t) == IF Len(t) > 5 THEN SubSeq(t, 1, 5) ELSE t

\* The rows.Next() loop over the selected times.  Neither handleError call
\* is followed by a return; splittedString[1] panics (index out of range)
\* when the split has a single fragment, and net/http recovers the panic
\* and writes nothing more.
RECURSIVE ScanRows(_, _, _)
ScanRows(times, bookedTimes, w) ==
    IF times = <<>> THEN [bookedTimes |-> bookedTimes, w |-> w]
    ELSE LET t == Head(times)
             w1 == IF t = EmptyStr
                   THEN handleError(w, MsgTimeEmpty, StatusInternalServerError)
                   ELSE w
             splittedString == Split(t, "T")
             w2 == IF Len(splittedString) # 2
                   THEN handleError(w1, MsgTimeFormat, StatusInternalServerError)
                   ELSE w1
         IN  IF Len(splittedString) < 2
             THEN [bookedTimes |-> bookedTimes, w |-> [w2 EXCEPT !.panicked = TRUE]]
             ELSE ScanRows(Tail(times),
                           bookedTimes \cup {Truncate5(splittedString[2])}, w2)

\* slotsWithStatus: every generated slot with IsBooked = bookedTimes[slot].
SlotsWithStatus(bookedTimes) ==
    LET allSlots == generateTimeSlots
    IN  [i \in 1..Len(allSlots) |->
            [time |-> allSlots[i], isBooked |-> allSlots[i] \in bookedTimes]]

\* The handler from the date check on: the response written and the number
\* of statements sent to storage.
handleGetAppointments(w, date, table, dbErr) ==
    IF date = EmptyStr
    THEN [w |-> handleError(w, "Date is required", StatusBadRequest), dbOps |-> 0]
    ELSE IF ~ParseDateOK(date)
    THEN [w |-> handleError(w, "Invalid date format", StatusBadRequest), dbOps |-> 0]
    ELSE IF ~contains(AVAILABLE_DAYS, Weekday(date))
    THEN [w |-> WriteBody(w, EncodeAppointmentResponse(FALSE, "", "", <<>>, ZeroAppointment)),
          dbOps |-> 0]
    ELSE IF dbErr
    THEN [w |-> handleError(w, "Database error", StatusInternalServerError), dbOps |-> 1]
    ELSE LET scan == ScanRows(SelectTimes(table, date), {}, w)
         IN  IF scan.w.panicked
             THEN [w |-> scan.w, dbOps |-> 1]
             ELSE [w |-> WriteBody(scan.w,
                                   EncodeAppointmentResponse(FALSE, "", "",
                                       SlotsWithStatus(scan.bookedTimes), ZeroAppointment)),
                   dbOps |-> 1]

(***************************************************************************)
(* handlePostAppointment: the checks before storage is used.               *)
(***************************************************************************)
MsgRequired == "Name, email, date, and time are required"
MsgEmail == "Invalid email format"
MsgDate == "Invalid date format"
MsgDay == "This day is not available for appointments"
MsgBooked == "This time slot is already booked"

\* The checks with the date parsed before the email is matched.
ValidateAppointmentDateFirst(a) ==
    IF a.name = EmptyStr \/ a.email = EmptyStr \/ a.date = EmptyStr \/ a.time = EmptyStr
    THEN MsgRequired
    ELSE IF ~ParseDateOK(a.date) THEN MsgDate
    ELSE IF ~EmailRegexMatch(a.email) THEN MsgEmail
    ELSE IF ~contains(AVAILABLE_DAYS, Weekday(a.date)) THEN MsgDay
    ELSE ""

\* The error text of the first failing check, "" when all pass.
ValidateAppointment(a) ==
    IF a.name = EmptyStr \/ a.email = EmptyStr \/ a.date = EmptyStr \/ a.time = EmptyStr
    THEN MsgRequired
    ELSE IF ~EmailRegexMatch(a.email) THEN MsgEmail
    ELSE IF ~ParseDateOK(a.date) THEN MsgDate
    ELSE IF ~contains(AVAILABLE_DAYS, Weekday(a.date)) THEN MsgDay
    ELSE ""

(***************************************************************************)
(* SendMail and the tail of handleContacts.                                *)
(***************************************************************************)
\* SendMail's result: an error when RESEND_API_KEY is empty, when the
\* attachment cannot be read, or when the provider refuses the message.
SendMail(apiKey, fileOK, sendOK) ==
    IF apiKey = "" THEN "RESEND_API_KEY is empty"
    ELSE IF ~fileOK THEN "read error"
    ELSE IF ~sendOK THEN "send error"
    ELSE ""

\* handleContacts answering with an error when SendMail fails.
ContactStoredMailFatal(w, mailErr) ==
    IF mailErr # ""
    THEN handleError(w, "Error sending email", StatusInternalServerError)
    ELSE WriteBody(WriteHeader(w, StatusOK), EncodeContactOK)

\* handleContacts once the row is stored: the SendMail error is logged only.
ContactStored(w, mailErr) == WriteBody(WriteHeader(w, StatusOK), EncodeContactOK)

\* The error text of the first failing check of a contact, "" when all pass.
ValidateContact(c) ==
    IF c.name = EmptyStr \/ c.email = EmptyStr THEN "Full name and email are required"
    ELSE IF ~EmailRegexMatch(c.email) THEN MsgEmail
    ELSE ""

(***************************************************************************)
(* State.                                                                  *)
(***************************************************************************)
VARIABLES
    appointments,   \* table appointments: sequence of rows in insertion order
    nextId,         \* the id the table's sequence assigns next
    contacts,       \* table contacts: sequence of rows (name, email)
    outbox,         \* messages the email provider accepted
    env,            \* process environment: DATABASE_URL, RESEND_API_KEY
    pc,             \* per goroutine: "idle", "count", "insert", "done"
    req,            \* per goroutine: the request being handled
    resp,           \* per goroutine: what was written to the ResponseWriter
    loc             \* per goroutine: statements sent to storage, whether one
                    \* failed, rows of the table when the request arrived,
                    \* whether a row was stored, SendMail's result

vars == <<appointments, nextId, contacts, outbox, env, pc, req, resp, loc>>

NoRequest ==
    [path |-> "", method |-> "", bodyOK |-> TRUE, name |-> EmptyStr, email |-> EmptyStr,
     date |-> EmptyStr, time |-> EmptyStr, message |-> "nil"]

NoLocals == [dbOps |-> 0, dbErr |-> FALSE, startRows |-> 0, stored |-> FALSE, mailErr |-> ""]

Request(path, method, bodyOK, name, email, date, time) ==
    [path |-> path, method |-> method, bodyOK |-> bodyOK, name |-> name, email |-> email,
     date |-> date, time |-> time, message |-> "nil"]

Init ==
    /\ appointments = <<>>
    /\ nextId = 1
    /\ contacts = <<>>
    /\ outbox = <<>>
    /\ env = [DATABASE_URL |-> "postgres://db", RESEND_API_KEY |-> "re_key"]
    /\ pc = [p \in Procs |-> "idle"]
    /\ req = [p \in Procs |-> NoRequest]
    /\ resp = [p \in Procs |-> NewResponse]
    /\ loc = [p \in Procs |-> NoLocals]

\* The contacts endpoint is also run on a deployment without the email key.
InitContacts ==
    /\ appointments = <<>>
    /\ nextId = 1
    /\ contacts = <<>>
    /\ outbox = <<>>
    /\ env \in {[DATABASE_URL |-> "postgres://db", RESEND_API_KEY |-> k] : k \in {"", "re_key"}}
    /\ pc = [p \in Procs |-> "idle"]
    /\ req = [p \in Procs |-> NoRequest]
    /\ resp = [p \in Procs |-> NewResponse]
    /\ loc = [p \in Procs |-> NoLocals]

\* Rows the table may hold before the service starts: the table is created
\* and may be written outside this program (handleGetAppointments tests for
\* an empty time, which handlePostAppointment never stores).
LegacyRow(date, time) ==
    [id |-> 1, name |-> <<"A", "l">>, email |-> <<"a", "@", "b", ".", "c">>,
     date |-> date, time |-> time, message |-> "nil"]

InitSeq ==
    /\ appointments \in
          {<<>>,
           <<LegacyRow(<<"2", "0", "2", "5", "-", "0", "1", "-", "0", "7">>, <<>>)>>,
           <<LegacyRow(<<"2", "0", "2", "5", "-", "0", "1", "-", "0", "8">>,
                       <<"0", "9", ":", "0", "0">>)>>}
    /\ nextId = Len(appointments) + 1
    /\ contacts = <<>>
    /\ outbox = <<>>
    /\ env = [DATABASE_URL |-> "postgres://db", RESEND_API_KEY |-> "re_key"]
    /\ pc = [p \in Procs |-> "idle"]
    /\ req = [p \in Procs |-> NoRequest]
    /\ resp = [p \in Procs |-> NewResponse]
    /\ loc = [p \in Procs |-> NoLocals]

\* Requests that have passed the checks and may still insert a row.
InFlightPosts == {q \in Procs : pc[q] \in {"count", "insert"}}

\* A goroutine takes a request r and ends it with response w.
Respond(p, r, w, l) ==
    /\ pc' = [pc EXCEPT ![p] = "done"]
    /\ req' = [req EXCEPT ![p] = r]
    /\ resp' = [resp EXCEPT ![p] = w]
    /\ loc' = [loc EXCEPT ![p] = l]

Arrived == [NoLocals EXCEPT !.startRows = Len(appointments)]

(***************************************************************************)
(* corsMiddleware: a preflight request is answered 200 with no body.       *)
(***************************************************************************)
Preflight(p, path) ==
    /\ pc[p] = "idle"
    /\ Respond(p, Request(path, "OPTIONS", TRUE, EmptyStr, EmptyStr, EmptyStr, EmptyStr),
               WriteHeader(NewResponse, StatusOK), Arrived)
    /\ UNCHANGED <<appointments, nextId, contacts, outbox, env>>

(***************************************************************************)
(* handleAppointments: GET, and the methods that are not allowed.          *)
(***************************************************************************)
GetAppointments(p, date, dbErr) ==
    /\ pc[p] = "idle"
    /\ LET r == Request("/api/appointments", "GET", TRUE, EmptyStr, EmptyStr, date, EmptyStr)
       IN  IF env.DATABASE_URL = ""
           THEN Respond(p, r, handleError(NewResponse, "DATABASE_URL environment variable not set",
                                          StatusInternalServerError), Arrived)
           ELSE LET out == handleGetAppointments(NewResponse, date, appointments, dbErr)
                IN  Respond(p, r, out.w, [Arrived EXCEPT !.dbOps = out.dbOps,
                                                         !.dbErr = dbErr /\ out.dbOps > 0])
    /\ UNCHANGED <<appointments, nextId, contacts, outbox, env>>

AppointmentsMethodNotAllowed(p, method) ==
    /\ pc[p] = "idle"
    /\ LET r == Request("/api/appointments", method, TRUE, EmptyStr, EmptyStr, EmptyStr, EmptyStr)
       IN  IF env.DATABASE_URL = ""
           THEN Respond(p, r, handleError(NewResponse, "DATABASE_URL environment variable not set",
                                          StatusInternalServerError), Arrived)
           ELSE Respond(p, r, handleError(NewResponse, "Method not allowed",
                                          StatusMethodNotAllowed), Arrived)
    /\ UNCHANGED <<appointments, nextId, contacts, outbox, env>>

(***************************************************************************)
(* handlePostAppointment, in its three steps: decode and check, the COUNT  *)
(* statement, the INSERT statement.                                        *)
(***************************************************************************)
PostValidate(p, bodyOK, name, email, date, time) ==
    /\ pc[p] = "idle"
    /\ Len(appointments) + Cardinality(InFlightPosts) < MaxRows
    /\ LET r == Request("/api/appointments", "POST", bodyOK, name, email, date, time)
       IN  IF env.DATABASE_URL = ""
           THEN Respond(p, r, handleError(NewResponse, "DATABASE_URL environment variable not set",
                                          StatusInternalServerError), Arrived)
           ELSE IF ~bodyOK
           THEN Respond(p, r, handleError(NewResponse, "Invalid request body", StatusBadRequest),
                        Arrived)
           ELSE IF ValidateAppointment(r) # ""
           THEN Respond(p, r, handleError(NewResponse, ValidateAppointment(r), StatusBadRequest),
                        Arrived)
           ELSE /\ pc' = [pc EXCEPT ![p] = "count"]
                /\ req' = [req EXCEPT ![p] = r]
                /\ resp' = [resp EXCEPT ![p] = NewResponse]
                /\ loc' = [loc EXCEPT ![p] = Arrived]
    /\ UNCHANGED <<appointments, nextId, contacts, outbox, env>>

PostCount(p, dbErr) ==
    /\ pc[p] = "count"
    /\ loc' = [loc EXCEPT ![p].dbOps = @ + 1, ![p].dbErr = dbErr]
    /\ IF dbErr
       THEN /\ resp' = [resp EXCEPT ![p] = handleError(@, "Database error", StatusInternalServerError)]
            /\ pc' = [pc EXCEPT ![p] = "done"]
       ELSE IF SelectCount(appointments, req[p].date, req[p].time) > 0
       THEN /\ resp' = [resp EXCEPT ![p] = handleError(@, MsgBooked, StatusBadRequest)]
            /\ pc' = [pc EXCEPT ![p] = "done"]
       ELSE /\ resp' = resp
            /\ pc' = [pc EXCEPT ![p] = "insert"]
    /\ UNCHANGED <<appointments, nextId, contacts, outbox, env, req>>

PostInsert(p, dbErr) ==
    /\ pc[p] = "insert"
    /\ pc' = [pc EXCEPT ![p] = "done"]
    /\ IF dbErr
       THEN /\ resp' = [resp EXCEPT ![p] = handleError(@, "Error creating appointment",
                                                       StatusInternalServerError)]
            /\ loc' = [loc EXCEPT ![p].dbOps = @ + 1, ![p].dbErr = TRUE]
            /\ UNCHANGED <<appointments, nextId>>
       ELSE /\ appointments' = Append(appointments, InsertedRow(nextId, req[p]))
            /\ nextId' = nextId + 1
            /\ loc' = [loc EXCEPT ![p].dbOps = @ + 1, ![p].stored = TRUE]
            /\ resp' = [resp EXCEPT ![p] =
                  WriteBody(@, EncodeAppointmentResponse(TRUE, "Appointment booked successfully",
                      "", <<>>,
                      [id |-> nextId, name |-> req[p].name, email |-> req[p].email,
                       date |-> req[p].date, time |-> req[p].time,
                       message |-> req[p].message]))]
    /\ UNCHANGED <<contacts, outbox, env, req>>

(***************************************************************************)
(* handleContacts.                                                         *)
(***************************************************************************)
Contacts(p, method, bodyOK, fullName, email, dbErr, fileOK, sendOK) ==
    /\ pc[p] = "idle"
    /\ Len(contacts) < MaxContacts
    /\ LET r == Request("/api/contacts", method, bodyOK, fullName, email, EmptyStr, EmptyStr)
           mailErr == SendMail(env.RESEND_API_KEY, fileOK, sendOK)
       IN  IF env.DATABASE_URL = ""
           THEN /\ Respond(p, r, handleError(NewResponse, "DATABASE_URL environment variable not set",
                                             StatusInternalServerError), Arrived)
                /\ UNCHANGED <<contacts, outbox>>
           ELSE IF method # "POST"
           THEN /\ Respond(p, r, handleError(NewResponse, "Method not allowed",
                                             StatusMethodNotAllowed), Arrived)
                /\ UNCHANGED <<contacts, outbox>>
           ELSE IF ~bodyOK
           THEN /\ Respond(p, r, handleError(NewResponse, "Invalid request body", StatusBadRequest),
                           Arrived)
                /\ UNCHANGED <<contacts, outbox>>
           ELSE IF ValidateContact(r) # ""
           THEN /\ Respond(p, r, handleError(NewResponse, ValidateContact(r), StatusBadRequest),
                           Arrived)
                /\ UNCHANGED <<contacts, outbox>>
           ELSE IF dbErr
           THEN /\ Respond(p, r, handleError(NewResponse, "Error saving contact",
                                             StatusInternalServerError),
                           [Arrived EXCEPT !.dbOps = 1, !.dbErr = TRUE])
                /\ UNCHANGED <<contacts, outbox>>
           ELSE /\ contacts' = Append(contacts, [name |-> fullName, email |-> email])
                /\ outbox' = IF mailErr = ""
                             THEN Append(outbox, [to |-> email, name |-> fullName])
                             ELSE outbox
                /\ Respond(p, r, ContactStored(NewResponse, mailErr),
                           [Arrived EXCEPT !.dbOps = 1, !.stored = TRUE, !.mailErr = mailErr])
    /\ UNCHANGED <<appointments, nextId, env>>

(***************************************************************************)
(* The handler has returned: net/http sends the response and the goroutine *)
(* is free for the next request.                                           *)
(***************************************************************************)
Finish(p) ==
    /\ pc[p] = "done"
    /\ pc' = [pc EXCEPT ![p] = "idle"]
    /\ req' = [req EXCEPT ![p] = NoRequest]
    /\ resp' = [resp EXCEPT ![p] = NewResponse]
    /\ loc' = [loc EXCEPT ![p] = NoLocals]
    /\ UNCHANGED <<appointments, nextId, contacts, outbox, env>>

(***************************************************************************)
(* Inputs.                                                                 *)
(***************************************************************************)
Tue == <<"2", "0", "2", "5", "-", "0", "1", "-", "0", "7">>    \* 2025-01-07, a Tuesday
Wed == <<"2", "0", "2", "5", "-", "0", "1", "-", "0", "8">>    \* 2025-01-08, a Wednesday
Thu == <<"2", "0", "2", "5", "-", "0", "1", "-", "0", "9">>    \* 2025-01-09, a Thursday
BadDate == <<"2", "0", "9", "9", "-", "1", "3", "-", "4", "0">>    \* 2099-13-40

T0900 == <<"0", "9", ":", "0", "0">>
T1400 == <<"1", "4", ":", "0", "0">>
TStamp0900 == <<"2", "0", "2", "5", "-", "0", "1", "-", "0", "7", "T", "0", "9", ":", "0", "0">>    \* 2025-01-07T09:00
TStamp1630 == <<"0", "0", "0", "0", "-", "0", "1", "-", "0", "1", "T", "1", "6", ":", "3", "0", ":", "0", "0", "Z">>    \* 0000-01-01T16:30:00Z
TTwoSeps == <<"T", "0", "9", ":", "3", "0", "T">>    \* T09:30T

NameAl == <<" ", "A", "l", " ">>    \* " Al "
NameBlank == <<" ">>
EmailNoDot == <<"f", "o", "o", "@", "b", "a", "r">>    \* foo@bar
EmailGood == <<"A", ".", "b", "@", "C", ".", "c", "o">>    \* A.b@C.co

Names == {EmptyStr, NameBlank, NameAl}
Emails == {EmptyStr, EmailNoDot, EmailGood}
Dates == {EmptyStr, BadDate, Tue, Wed, Thu}
Times == {EmptyStr, T0900, T1400, TStamp0900, TStamp1630, TTwoSeps}

\* The inputs of the runs with requests handled concurrently.
ConcNames == {NameBlank, NameAl}
ConcEmails == {EmailGood}
ConcDates == {Tue, Wed}
ConcTimes == {T0900, TStamp0900}

(***************************************************************************)
(* Spec: requests to /api/appointments handled concurrently.               *)
(***************************************************************************)
Next ==
    \/ \E p \in Procs : Preflight(p, "/api/appointments")
    \/ \E p \in Procs : \E date \in ConcDates : \E dbErr \in BOOLEAN :
          GetAppointments(p, date, dbErr)
    \/ \E p \in Procs : AppointmentsMethodNotAllowed(p, "PUT")
    \/ \E p \in Procs : \E name \in ConcNames : \E email \in ConcEmails :
          \E date \in ConcDates : \E time \in ConcTimes :
             PostValidate(p, TRUE, name, email, date, time)
    \/ \E p \in Procs : \E dbErr \in BOOLEAN : PostCount(p, dbErr)
    \/ \E p \in Procs : \E dbErr \in BOOLEAN : PostInsert(p, dbErr)
    \/ \E p \in Procs : Finish(p)

Spec == Init /\ [][Next]_vars

(***************************************************************************)
(* SpecSeq: requests to /api/appointments handled one after the other,     *)
(* over all the inputs.                                                    *)
(***************************************************************************)
Quiet == \A q \in Procs : pc[q] = "idle"

NextSeq ==
    \/ \E p \in Procs : Quiet /\ Preflight(p, "/api/appointments")
    \/ \E p \in Procs : \E date \in Dates : \E dbErr \in BOOLEAN :
          Quiet /\ GetAppointments(p, date, dbErr)
    \/ \E p \in Procs : Quiet /\ AppointmentsMethodNotAllowed(p, "PUT")
    \/ \E p \in Procs : \E name \in Names : \E email \in Emails :
          \E date \in Dates : \E time \in Times :
             Quiet /\ PostValidate(p, TRUE, name, email, date, time)
    \/ \E p \in Procs :
          Quiet /\ PostValidate(p, FALSE, EmptyStr, EmptyStr, EmptyStr, EmptyStr)
    \/ \E p \in Procs : \E dbErr \in BOOLEAN : PostCount(p, dbErr)
    \/ \E p \in Procs : \E dbErr \in BOOLEAN : PostInsert(p, dbErr)
    \/ \E p \in Procs : Finish(p)

SpecSeq == InitSeq /\ [][NextSeq]_vars

(***************************************************************************)
(* SpecContacts: requests to /api/contacts handled concurrently.           *)
(***************************************************************************)
NextContacts ==
    \/ \E p \in Procs : Preflight(p, "/api/contacts")
    \/ \E p \in Procs : \E method \in {"POST", "GET"} : \E bodyOK \in BOOLEAN :
          \E fullName \in Names : \E email \in Emails :
             \E dbErr \in BOOLEAN : \E fileOK \in BOOLEAN : \E sendOK \in BOOLEAN :
                Contacts(p, method, bodyOK, fullName, email, dbErr, fileOK, sendOK)
    \/ \E p \in Procs : Finish(p)

SpecContacts == InitContacts /\ [][NextContacts]_vars

(***************************************************************************)
(* Properties.                                                             *)
(***************************************************************************)
Done(p) == pc[p] = "done"

IsGet(p) == req[p].path = "/api/appointments" /\ req[p].method = "GET"

IsPost(p) == req[p].path = "/api/appointments" /\ req[p].method = "POST" /\ req[p].bodyOK

BookableDate(d) == ParseDateOK(d) /\ Weekday(d) \in {2, 4, 5}

\* The request was answered with status st and a single error object.
Refused(p, st, msg) ==
    /\ resp[p].status = st
    /\ ~resp[p].panicked
    /\ Len(resp[p].bodies) = 1
    /\ resp[p].bodies[1].keys = {"error", "appointment"}
    /\ resp[p].bodies[1].error = msg

\* The table held a row at the request's (date, time) when it arrived.
TakenOnArrival(p) ==
    \E i \in 1..loc[p].startRows :
        appointments[i].date = req[p].date /\ appointments[i].time = req[p].time

\* C1: no two stored appointments have the same (date, time) pair, in every
\* state reached by any interleaving of concurrent POST requests.
C1_UniqueDateTime ==
    \A i \in 1..Len(appointments) : \A j \in 1..Len(appointments) :
        (appointments[i].date = appointments[j].date
            /\ appointments[i].time = appointments[j].time) => i = j

\* C2: of valid POST requests for one (date, time) handled one after the
\* other, with storage answering, the one that finds no row at the pair is
\* answered 200 with the id storage assigned and adds exactly one row, and
\* one that arrives when a row at the pair exists is answered 400 "already
\* booked" and adds nothing.
C2_SecondBookingRefused ==
    \A p \in Procs :
        (Done(p) /\ IsPost(p) /\ ValidateAppointment(req[p]) = "" /\ ~loc[p].dbErr) =>
            IF TakenOnArrival(p)
            THEN /\ Refused(p, 400, MsgBooked)
                 /\ Len(appointments) = loc[p].startRows
            ELSE /\ resp[p].status = 200
                 /\ Len(resp[p].bodies) = 1
                 /\ resp[p].bodies[1].success
                 /\ "error" \notin resp[p].bodies[1].keys
                 /\ Len(appointments) = loc[p].startRows + 1
                 /\ LET row == appointments[Len(appointments)]
                    IN  /\ row.date = req[p].date
                        /\ row.time = req[p].time
                        /\ row.id >= 1
                        /\ \A i \in 1..loc[p].startRows : appointments[i].id # row.id
                        /\ resp[p].bodies[1].appointment.id = row.id

C2_Witness ==
    \E p \in Procs :
        /\ Done(p) /\ IsPost(p) /\ ValidateAppointment(req[p]) = "" /\ ~loc[p].dbErr
        /\ TakenOnArrival(p)
        /\ resp[p].status = 400
        /\ Len(appointments) = loc[p].startRows

\* A stored time is well formed when it is not empty and holds exactly one
\* date/time separator 'T'.
WellFormedTime(t) == t # EmptyStr /\ Cardinality({k \in 1..Len(t) : t[k] = "T"}) = 1

\* HH:MM of a well-formed stored time: the five characters (or fewer) that
\* follow the separator.
HHMM(t) ==
    LET k == CHOOSE k \in 1..Len(t) : t[k] = "T"
    IN  SubSeq(t, k + 1, IF Len(t) < k + 5 THEN Len(t) ELSE k + 5)

\* The stored times of a date.
TimesOn(d) == {appointments[i].time : i \in {k \in 1..Len(appointments) : appointments[k].date = d}}

\* C3: on a bookable date whose stored times are all well formed, GET
\* answers with every generated slot, and a slot is marked booked if and
\* only if a stored time of that date, normalized to HH:MM, equals the
\* slot's time; rows of other dates have no effect.
C3_BookedIffStoredTime ==
    \A p \in Procs :
        (/\ Done(p) /\ IsGet(p) /\ BookableDate(req[p].date) /\ ~loc[p].dbErr
         /\ \A t \in TimesOn(req[p].date) : WellFormedTime(t)) =>
            /\ resp[p].status = 200
            /\ ~resp[p].panicked
            /\ Len(resp[p].bodies) = 1
            /\ "error" \notin resp[p].bodies[1].keys
            /\ LET slots == resp[p].bodies[1].slots
               IN  /\ Len(slots) = Len(generateTimeSlots)
                   /\ \A i \in 1..Len(slots) :
                         /\ slots[i].time = generateTimeSlots[i]
                         /\ slots[i].isBooked <=>
                               \E t \in TimesOn(req[p].date) : HHMM(t) = slots[i].time

C3_Witness ==
    \E p \in Procs :
        /\ Done(p) /\ IsGet(p) /\ req[p].date = Tue /\ ~loc[p].dbErr
        /\ TimesOn(Tue) = {TStamp1630}
        /\ TimesOn(Thu) = {TStamp0900}
        /\ \E i \in 1..Len(resp[p].bodies[1].slots) :
              /\ resp[p].bodies[1].slots[i].time = <<"1", "6", ":", "3", "0">>
              /\ resp[p].bodies[1].slots[i].isBooked
        /\ \E i \in 1..Len(resp[p].bodies[1].slots) :
              /\ resp[p].bodies[1].slots[i].time = T0900
              /\ ~resp[p].bodies[1].slots[i].isBooked

\* C4: when GET for a bookable date reads a malformed stored time (empty,
\* or not exactly one 'T'), the request ends with exactly one 500 error
\* response and no slot list, and the row is not processed any further.
C4_MalformedTimeOneError ==
    \A p \in Procs :
        (/\ Done(p) /\ IsGet(p) /\ BookableDate(req[p].date) /\ ~loc[p].dbErr
         /\ \E t \in TimesOn(req[p].date) : ~WellFormedTime(t)) =>
            /\ resp[p].status = 500
            /\ ~resp[p].panicked
            /\ Len(resp[p].bodies) = 1
            /\ resp[p].bodies[1].keys = {"error", "appointment"}

\* C5: GET for a date that parses and whose weekday is not Tuesday, Thursday
\* or Friday answers 200 with an empty slot list and no error, whatever the
\* table holds, and sends no statement to storage.
C5_OtherWeekdayEmptyList ==
    \A p \in Procs :
        (/\ Done(p) /\ IsGet(p) /\ ParseDateOK(req[p].date)
         /\ Weekday(req[p].date) \notin {2, 4, 5}) =>
            /\ resp[p].status = 200
            /\ ~resp[p].panicked
            /\ Len(resp[p].bodies) = 1
            /\ "error" \notin resp[p].bodies[1].keys
            /\ resp[p].bodies[1].slots = <<>>
            /\ loc[p].dbOps = 0

C5_Witness ==
    \E p \in Procs :
        /\ Done(p) /\ IsGet(p) /\ req[p].date = Wed
        /\ TimesOn(Wed) # {}
        /\ resp[p].status = 200
        /\ resp[p].bodies[1].slots = <<>>

\* The five checks of a booking, each on its own.
FieldMissing(a) ==
    a.name = EmptyStr \/ a.email = EmptyStr \/ a.date = EmptyStr \/ a.time = EmptyStr
EmailBad(a) == ~EmailRegexMatch(a.email)
DateBad(a) == ~ParseDateOK(a.date)
DayBad(a) == ~BookableDate(a.date)

\* C6: a POST is answered by the first failing check in the order required
\* fields, email shape, date format, bookable weekday, slot uniqueness, also
\* when later checks would fail too, and no statement is sent to storage
\* before the first four checks have passed.
C6_FirstFailingCheckWins ==
    \A p \in Procs :
        IsPost(p) =>
            /\ (Done(p) /\ FieldMissing(req[p])) =>
                  Refused(p, 400, MsgRequired) /\ loc[p].dbOps = 0
            /\ (Done(p) /\ ~FieldMissing(req[p]) /\ EmailBad(req[p])) =>
                  Refused(p, 400, MsgEmail) /\ loc[p].dbOps = 0
            /\ (Done(p) /\ ~FieldMissing(req[p]) /\ ~EmailBad(req[p]) /\ DateBad(req[p])) =>
                  Refused(p, 400, MsgDate) /\ loc[p].dbOps = 0
            /\ (Done(p) /\ ~FieldMissing(req[p]) /\ ~EmailBad(req[p]) /\ ~DateBad(req[p])
                  /\ DayBad(req[p])) =>
                  Refused(p, 400, MsgDay) /\ loc[p].dbOps = 0
            /\ (Done(p) /\ ~FieldMissing(req[p]) /\ ~EmailBad(req[p]) /\ ~DateBad(req[p])
                  /\ ~DayBad(req[p]) /\ ~loc[p].dbErr /\ TakenOnArrival(p)) =>
                  Refused(p, 400, MsgBooked)
            /\ (loc[p].dbOps > 0 \/ pc[p] \in {"count", "insert"}) =>
                  (~FieldMissing(req[p]) /\ ~EmailBad(req[p]) /\ ~DateBad(req[p])
                      /\ ~DayBad(req[p]))

\* A request for a day that is not bookable, at a (date, time) the table
\* already holds, is told that the day is not available.
C6_Witness ==
    \E p \in Procs :
        /\ Done(p) /\ IsPost(p) /\ req[p].date = Wed
        /\ ~FieldMissing(req[p]) /\ ~EmailBad(req[p])
        /\ TakenOnArrival(p)
        /\ resp[p].bodies[1].error = MsgDay

\* The contact request passed its checks and its INSERT succeeded.
ContactInserted(p) ==
    /\ Done(p)
    /\ req[p].path = "/api/contacts" /\ req[p].method = "POST" /\ req[p].bodyOK
    /\ req[p].name # EmptyStr /\ EmailRegexMatch(req[p].email)
    /\ loc[p].dbOps = 1 /\ ~loc[p].dbErr

\* C7: a contact POST with a name and a well-shaped email whose INSERT
\* succeeds is answered 200 with success:true whether SendMail succeeds or
\* fails, its row is in the contacts table, and no later step removes or
\* changes a stored contact row.
C7_ContactSurvivesMailFailure ==
    /\ [](\A p \in Procs :
            ContactInserted(p) =>
                /\ resp[p].status = 200
                /\ Len(resp[p].bodies) = 1
                /\ resp[p].bodies[1].success
                /\ "error" \notin resp[p].bodies[1].keys
                /\ \E i \in 1..Len(contacts) :
                      contacts[i] = [name |-> req[p].name, email |-> req[p].email])
    /\ [][/\ Len(contacts') >= Len(contacts)
          /\ SubSeq(contacts', 1, Len(contacts)) = contacts]_vars

C7_Witness ==
    \E p \in Procs :
        /\ ContactInserted(p)
        /\ loc[p].mailErr # ""
        /\ resp[p].status = 200
        /\ outbox = <<>>
        /\ Len(contacts) = 1

\* C8: a POST whose time is not empty and is no time of the slot grid (the
\* blocked 14:00, a time off the grid, a non-time string) is answered 400
\* and no row is stored for it.
C8_BadTimeRefused ==
    \A p \in Procs :
        (/\ Done(p) /\ IsPost(p) /\ ~loc[p].dbErr
         /\ req[p].time # EmptyStr
         /\ ~contains(generateTimeSlots, req[p].time)) =>
            /\ resp[p].status = 400
            /\ ~loc[p].stored

\* The slot grid as the schedule describes it: the half hours from 09:00 to
\* 17:00 exclusive, in minutes of the day, without those in [14:00, 14:30).
GridMinutes == {m \in (9 * 60)..(17 * 60 - 1) : m % 30 = 0 /\ ~(14 * 60 <= m /\ m < 14 * 60 + 30)}

NthGridMinute(i) == CHOOSE m \in GridMinutes : Cardinality({k \in GridMinutes : k < m}) = i - 1

SlotsAsScheduled(slots) ==
    /\ Len(slots) = Cardinality(GridMinutes)
    /\ Len(slots) = 15
    /\ \A i \in 1..Len(slots) :
          LET m == NthGridMinute(i)
          IN  slots[i] = <<Digits[(m \div 600) + 1], Digits[((m \div 60) % 10) + 1], ":",
                           Digits[((m % 60) \div 10) + 1], Digits[(m % 10) + 1]>>
    /\ \A i \in 1..Len(slots) : slots[i] # <<"1", "4", ":", "0", "0">>
    /\ \E i \in 1..Len(slots) : slots[i] = <<"1", "3", ":", "3", "0">>
    /\ \E i \in 1..Len(slots) : slots[i] = <<"1", "4", ":", "3", "0">>
    /\ slots[1] = <<"0", "9", ":", "0", "0">>
    /\ slots[Len(slots)] = <<"1", "6", ":", "3", "0">>

\* C9: generateTimeSlots returns, on every call, the half-hour grid from
\* 09:00 inclusive to 17:00 exclusive as zero-padded HH:MM strings in
\* ascending order without the slots starting in [14:00, 14:30): 15 slots,
\* 14:00 absent, 13:30 and 14:30 present, 16:30 last.
C9_SlotGrid ==
    /\ SlotsAsScheduled(generateTimeSlots)
    /\ \A p \in Procs :
          (Done(p) /\ IsGet(p)) =>
              \A b \in 1..Len(resp[p].bodies) :
                  "slots" \in resp[p].bodies[b].keys =>
                      SlotsAsScheduled([i \in 1..Len(resp[p].bodies[b].slots) |->
                                           resp[p].bodies[b].slots[i].time])

C9_Witness ==
    \E p \in Procs :
        /\ Done(p) /\ IsGet(p) /\ resp[p].status = 200
        /\ Len(resp[p].bodies) = 1
        /\ Len(resp[p].bodies[1].slots) = 15

\* C10: once a POST for a bookable date d and a slot time t of the grid has
\* succeeded, every later GET for d answers 200 with a slot list in which t
\* is booked (storage returning the time as it was inserted).  The rows
\* the table held when the GET arrived are those of the POSTs that had
\* succeeded by then.
C10_BookedSlotShown ==
    \A p \in Procs :
        (Done(p) /\ IsGet(p) /\ ~loc[p].dbErr) =>
            \A i \in 1..loc[p].startRows :
                (appointments[i].date = req[p].date
                    /\ contains(generateTimeSlots, appointments[i].time)) =>
                    /\ resp[p].status = 200
                    /\ Len(resp[p].bodies) = 1
                    /\ \E k \in 1..Len(resp[p].bodies[1].slots) :
                          /\ resp[p].bodies[1].slots[k].time = appointments[i].time
                          /\ resp[p].bodies[1].slots[k].isBooked

\* C11: every row a POST inserts has a non-empty stored name, email, date
\* and time and a date that falls on a Tuesday, Thursday or Friday; a name
\* made of whitespace only never gives a row with an empty name.  (Every
\* row of the table is one a POST inserted: the table starts empty.)
C11_StoredFieldsNonEmpty ==
    \A i \in 1..Len(appointments) :
        /\ appointments[i].name # EmptyStr
        /\ appointments[i].email # EmptyStr
        /\ appointments[i].date # EmptyStr
        /\ appointments[i].time # EmptyStr
        /\ BookableDate(appointments[i].date)

=============================================================================
